---- MODULE Spec2Model ----
(***************************************************************************)
(* Model of scripts/memory_sync.py: a JSON memory document (entries with   *)
(* ids "<UTC date>-<3-digit sequence>"), merge_memories, add_entry,        *)
(* load_memory, save_memory (backup by rename) and sync_with_remote.       *)
(*                                                                         *)
(* Python strings are modelled as follows.  An entry id is the record      *)
(* [date, num]: the text before the dash and the digit string after it.    *)
(* A timestamp (datetime.utcnow().isoformat() + 'Z') is the clock reading  *)
(* `now`, a natural number; sorting by it is sorting by <=.  A content     *)
(* string is its length.                                                   *)
(***************************************************************************)
EXTENDS Integers, Sequences, FiniteSets, Bags, TLC

VARIABLES
    now,        \* datetime.utcnow(): the clock reading
    today,      \* datetime.utcnow().strftime('%Y%m%d'): the UTC date of `now`
    memory,     \* the in-memory document (the dict the functions mutate)
    fs,         \* the filesystem: [file, backup], the texts at path and path.backup
    last,       \* the call made by the last step: its name, argument and return value
    issued,     \* history: issued[d] = the sequence number add_entry produced last
                \* on date d, 0 when it produced none yet
    pc,         \* concurrent runs: pc[p] = the step process p takes next
    local,      \* local[p] = local_memory of process p
    saw,        \* saw[p] = what os.path.exists returned to process p
    handle,     \* handle[p] = the name under which the file process p holds
                \* open for writing is linked now ("none": holds no file)
    result      \* result[p] = how process p ended

vars == <<now, today, memory, fs, last, issued, pc, local, saw, handle, result>>

----------------------------------------------------------------------------
(* Bounds of the model *)

MaxClock == 2        \* clock readings 0..MaxClock
MaxEntries == 3      \* entries a document holds at most

(* Program constants *)

ContentLimit == 200  \* content[:200]
IdWidth == 3         \* {next_num:03d}

Motto == "Ne Obliviscaris"
Version == "20260213-0.1"

\* a marker other than the required one
OtherMotto == "Remember"

----------------------------------------------------------------------------
(* Strings *)

Min(a, b) == IF a <= b THEN a ELSE b

RECURSIVE Digits(_)
\* str(n) as a sequence of decimal digits
Digits(n) == IF n < 10 THEN <<n>> ELSE Digits(n \div 10) \o <<n % 10>>

RECURSIVE ZeroPad(_, _)
ZeroPad(d, width) == IF Len(d) >= width THEN d ELSE ZeroPad(<<0>> \o d, width)

\* f"{next_num:03d}"
Fmt03(n) == ZeroPad(Digits(n), IdWidth)

\* f"{today}-{next_num:03d}"
EntryId(date, n) == [date |-> date, num |-> Fmt03(n)]

\* e['id'].startswith(today)
StartsWith(id, date) == id.date = date

\* datetime.utcnow().isoformat() + 'Z'
Timestamp == now

----------------------------------------------------------------------------
(* Documents *)

Range(s) == {s[i] : i \in 1..Len(s)}

SeqBag(s) == [x \in Range(s) |-> Cardinality({i \in 1..Len(s) : s[i] = x})]

Ids(entries) == {entries[i].id : i \in 1..Len(entries)}

UniqueIds(entries) ==
    \A i, j \in 1..Len(entries) : entries[i].id = entries[j].id => i = j

Sorted(entries) ==
    \A i \in 1..Len(entries) - 1 : entries[i].timestamp <= entries[i + 1].timestamp

\* the document sync_with_remote creates when load_memory returns None
NewDocument ==
    [version |-> Version, timestamp |-> Timestamp,
     campbell_motto |-> Motto, entries |-> <<>>]

\* memory[key] = value
SetKey(m, key, value) ==
    [k \in DOMAIN m \cup {key} |-> IF k = key THEN value ELSE m[k]]

RECURSIVE InsertStable(_, _)
\* insert e into the sorted sequence s after every entry whose key is <= e's
InsertStable(s, e) ==
    IF s = <<>> THEN <<e>>
    ELSE IF s[Len(s)].timestamp <= e.timestamp THEN Append(s, e)
    ELSE Append(InsertStable(SubSeq(s, 1, Len(s) - 1), e), s[Len(s)])

RECURSIVE SortByTimestamp(_)
\* list.sort(key=lambda x: x['metadata']['timestamp']): stable, ascending
SortByTimestamp(s) ==
    IF s = <<>> THEN <<>>
    ELSE InsertStable(SortByTimestamp(SubSeq(s, 1, Len(s) - 1)), s[Len(s)])

RECURSIVE AppendNewUnchecked(_, _, _)
\* the loop without its test `entry['id'] not in local_ids`
AppendNewUnchecked(entries, remote, local_ids) ==
    IF remote = <<>> THEN entries
    ELSE AppendNewUnchecked(Append(entries, Head(remote)), Tail(remote), local_ids)

RECURSIVE AppendNew(_, _, _)
\* the loop of merge_memories: local_ids is computed once, before the loop
AppendNew(entries, remote, local_ids) ==
    IF remote = <<>> THEN entries
    ELSE AppendNew(IF Head(remote).id \notin local_ids
                       THEN Append(entries, Head(remote)) ELSE entries,
                   Tail(remote), local_ids)

\* a merge in which, on a shared id, the remote entry replaces the local one
MergeEntriesRemoteWins(localEntries, remoteEntries) ==
    SortByTimestamp(
        SelectSeq(localEntries, LAMBDA e : e.id \notin Ids(remoteEntries))
            \o remoteEntries)

\* merge_memories(local, remote)['entries']
MergeEntries(localEntries, remoteEntries) ==
    SortByTimestamp(AppendNew(localEntries, remoteEntries, Ids(localEntries)))

\* the count taken over a set of ids instead of the list of ids
NextNumOfSet(entries, date) ==
    Cardinality({id \in Ids(entries) : StartsWith(id, date)}) + 1

\* len(existing_ids) + 1
NextNum(entries, date) ==
    Cardinality({i \in 1..Len(entries) : StartsWith(entries[i].id, date)}) + 1

\* the timestamp of the new entry: {'timestamp': now, **(metadata or {})};
\* metadata is <<>> when it carries no 'timestamp' key and <<t>> when it does
MetadataTimestamp(metadata) == IF metadata = <<>> THEN Timestamp ELSE metadata[1]

\* new_entry of add_entry
NewEntry(entries, type, content, source, metadata) ==
    [id |-> EntryId(today, NextNum(entries, today)),
     type |-> type,
     content |-> Min(content, ContentLimit),
     source |-> source,
     timestamp |-> MetadataTimestamp(metadata)]

\* an append that keeps the list in timestamp order
AddEntrySorted(entries, type, content, source, metadata) ==
    SortByTimestamp(Append(entries, NewEntry(entries, type, content, source, metadata)))

\* memory['entries'].append(new_entry)
AddEntryEntries(entries, type, content, source, metadata) ==
    Append(entries, NewEntry(entries, type, content, source, metadata))

\* the document add_entry returns (memory must hold the key 'entries')
AddEntryTo(m, type, content, source, metadata) ==
    SetKey([m EXCEPT !.entries = AddEntryEntries(@, type, content, source, metadata)],
           "timestamp", Timestamp)

\* the document merge_memories returns (local must hold the key 'entries')
MergeInto(m, remoteEntries) ==
    SetKey([m EXCEPT !.entries = MergeEntries(@, remoteEntries)],
           "timestamp", Timestamp)

----------------------------------------------------------------------------
(* Files.  What a path holds is Missing (no file) or a text: Garbage (a text *)
(* that is no JSON), Partial (the empty or cut-off text of a write that did  *)
(* not finish), ArrayText (the JSON text `[]`) or the JSON text of an object. *)

Missing == [kind |-> "missing"]
Garbage == [kind |-> "garbage"]
Partial == [kind |-> "partial"]
ArrayText == [kind |-> "array"]

\* json.dump(memory, f, indent=2): the JSON object with memory's keys and values
Dump(m) == [kind |-> "object", members |-> m]

\* the entries of a text that is a document, none otherwise
EntriesOf(text) ==
    IF text.kind = "object" /\ "entries" \in DOMAIN text.members
        THEN text.members.entries ELSE <<>>

\* load_memory(file_path): status "ok" with the dict, "none" for the return
\* value None, "raise" for an exception that leaves the function
LoadMemory(text) ==
    IF text.kind = "missing" THEN [status |-> "none"]       \* FileNotFoundError
    ELSE IF text.kind \in {"garbage", "partial"}
        THEN [status |-> "none"]                            \* JSONDecodeError
    ELSE IF text.kind = "array"
        THEN [status |-> "raise"]          \* AttributeError: list has no 'get'
    ELSE IF ~("campbell_motto" \in DOMAIN text.members
                /\ text.members.campbell_motto = Motto)
        THEN [status |-> "none"]
    ELSE [status |-> "ok", memory |-> text.members]

\* os.path.exists(file_path)
Exists(f) == f.file # Missing

\* a rename that leaves an earlier backup in place
RenameKeepingBackup(f) ==
    IF f.file = Missing THEN [ok |-> FALSE, fs |-> f]
    ELSE [ok |-> TRUE,
          fs |-> [file |-> Missing,
                  backup |-> IF f.backup = Missing THEN f.file ELSE f.backup]]

\* a rename that fails when the target exists
RenameNoReplace(f) ==
    IF f.file = Missing \/ f.backup # Missing THEN [ok |-> FALSE, fs |-> f]
    ELSE [ok |-> TRUE, fs |-> [file |-> Missing, backup |-> f.file]]

\* os.rename(file_path, backup_path): replaces the target; FileNotFoundError
\* when file_path does not exist
Rename(f) ==
    IF f.file = Missing THEN [ok |-> FALSE, fs |-> f]
    ELSE [ok |-> TRUE, fs |-> [file |-> Missing, backup |-> f.file]]

\* open(file_path, 'w'): creates the file or cuts it to length 0
OpenW(f) == [f EXCEPT !.file = Partial]

\* json.dump(memory, f, indent=2) and the close of the file
WriteDump(f, m) == [f EXCEPT !.file = Dump(m)]

\* faults the environment can raise in save_memory: none, or an OSError in
\* os.rename, in open, or in the write of json.dump
Faults == {"none", "rename", "open", "dump"}

\* a save_memory that writes the new file first and makes the backup after
SaveMemoryWriteFirst(f, m, fault) ==
    IF fault = "open" THEN [ret |-> FALSE, fs |-> f]
    ELSE IF fault = "dump" THEN [ret |-> FALSE, fs |-> OpenW(f)]
    ELSE IF Exists(f) /\ fault = "rename" THEN [ret |-> FALSE, fs |-> WriteDump(f, m)]
    ELSE IF Exists(f) THEN [ret |-> TRUE, fs |-> Rename(WriteDump(f, m)).fs]
    ELSE [ret |-> TRUE, fs |-> WriteDump(f, m)]

\* save_memory(memory, file_path): the return value and the filesystem after
SaveMemory(f, m, fault) ==
    LET renamed == IF Exists(f) THEN Rename(f).fs ELSE f
    IN  IF Exists(f) /\ fault = "rename" THEN [ret |-> FALSE, fs |-> f]
        ELSE IF fault = "open" THEN [ret |-> FALSE, fs |-> renamed]
        ELSE IF fault = "dump" THEN [ret |-> FALSE, fs |-> OpenW(renamed)]
        ELSE [ret |-> TRUE, fs |-> WriteDump(OpenW(renamed), m)]

----------------------------------------------------------------------------
(* Inputs *)

\* two UTC dates: the day the run starts on and the day after
Dates == {0, 1}

\* timestamps remote entries carry: the earliest and the latest clock reading
RemoteTimes == {0, MaxClock}

\* sequence numbers of the ids remote entries carry
RemoteNums == {1, 2}

\* the UTC dates of the ids remote entries carry: the day the run starts on
RemoteDates == {0}

RemoteEntries ==
    [id : {EntryId(d, n) : d \in RemoteDates, n \in RemoteNums},
     type : {"note"}, content : {5}, source : {"remote"},
     timestamp : RemoteTimes]

\* the entry lists of the remote documents handed to merge_memories
RemoteLists ==
    {<<>>} \cup {<<e>> : e \in RemoteEntries}
           \cup {<<e, f>> : e \in RemoteEntries, f \in RemoteEntries}

\* metadata arguments: without a 'timestamp' key, or with the caller's own
Metadatas == {<<>>, <<0>>}

NoCall == [op |-> "none", remote |-> <<>>, fault |-> "none", ret |-> "none"]

----------------------------------------------------------------------------
(* The clock *)

\* time passes within the UTC day
Tick ==
    /\ now < MaxClock
    /\ now' = now + 1
    /\ last' = NoCall
    /\ UNCHANGED <<today, memory, fs, issued, pc, local, saw, handle, result>>

\* time passes over midnight UTC
Midnight ==
    /\ now < MaxClock
    /\ today + 1 \in Dates
    /\ now' = now + 1
    /\ today' = today + 1
    /\ last' = NoCall
    /\ UNCHANGED <<memory, fs, issued, pc, local, saw, handle, result>>

----------------------------------------------------------------------------
(* Operations on the in-memory document *)

\* add_entry(memory, entry_type, content, source, metadata)
AddEntry(type, content, source, metadata) ==
    /\ "entries" \in DOMAIN memory
    /\ Len(memory.entries) < MaxEntries
    /\ memory' = AddEntryTo(memory, type, content, source, metadata)
    /\ last' = [NoCall EXCEPT !.op = "add_entry"]
    /\ issued' = [issued EXCEPT ![today] = NextNum(memory.entries, today)]
    /\ UNCHANGED <<now, today, fs, pc, local, saw, handle, result>>

\* merge_memories(memory, remote), remote a document other than memory
Merge(remoteEntries) ==
    /\ "entries" \in DOMAIN memory
    /\ Len(memory.entries) + Len(remoteEntries) <= MaxEntries
    /\ memory' = MergeInto(memory, remoteEntries)
    /\ last' = [NoCall EXCEPT !.op = "merge", !.remote = remoteEntries]
    /\ UNCHANGED <<now, today, fs, issued, pc, local, saw, handle, result>>

\* merge_memories(memory, memory): local and remote are the same dict
MergeSelf ==
    /\ "entries" \in DOMAIN memory
    /\ memory' = MergeInto(memory, memory.entries)
    /\ last' = [NoCall EXCEPT !.op = "merge_self"]
    /\ UNCHANGED <<now, today, fs, issued, pc, local, saw, handle, result>>

NoProcesses ==
    /\ pc = <<"idle", "idle">>
    /\ local = <<NewDocument, NewDocument>>
    /\ saw = <<FALSE, FALSE>>
    /\ handle = <<"none", "none">>
    /\ result = <<"none", "none">>

Init ==
    /\ now = 0
    /\ today = 0
    /\ memory = NewDocument
    /\ fs = [file |-> Missing, backup |-> Missing]
    /\ last = NoCall
    /\ issued = [d \in Dates |-> 0]
    /\ NoProcesses

Next ==
    \/ Tick
    \/ Midnight
    \/ \E content \in {ContentLimit + 1}, metadata \in Metadatas :
           AddEntry("action", content, "heron-local", metadata)
    \/ \E r \in RemoteLists : Merge(r)
    \/ MergeSelf

Spec == Init /\ [][Next]_vars

----------------------------------------------------------------------------
(* Persistence: save_memory and load_memory on the document in memory *)

\* save_memory(memory, path)
Save(fault) ==
    /\ fault = "rename" => Exists(fs)
    /\ fs' = SaveMemory(fs, memory, fault).fs
    /\ last' = [NoCall EXCEPT !.op = "save", !.fault = fault,
                              !.ret = IF SaveMemory(fs, memory, fault).ret
                                          THEN "True" ELSE "False"]
    /\ UNCHANGED <<now, today, memory, issued, pc, local, saw, handle, result>>

\* memory = load_memory(path), when it returns a document
Load ==
    /\ LoadMemory(fs.file).status = "ok"
    /\ memory' = LoadMemory(fs.file).memory
    /\ last' = [NoCall EXCEPT !.op = "load"]
    /\ UNCHANGED <<now, today, fs, issued, pc, local, saw, handle, result>>

\* a document of one remote entry that carries the latest timestamp
LateDocument ==
    [NewDocument EXCEPT
        !.entries = <<[id |-> EntryId(0, 1), type |-> "note", content |-> 5,
                       source |-> "remote", timestamp |-> MaxClock]>>]

\* what path can hold before the first call
InitialFiles ==
    {Missing, Garbage, ArrayText,
     Dump([NewDocument EXCEPT !.campbell_motto = OtherMotto]),
     Dump([version |-> Version, timestamp |-> 0, entries |-> <<>>]),
     Dump([version |-> Version, timestamp |-> 0, campbell_motto |-> Motto]),
     Dump(NewDocument),
     Dump(LateDocument)}

InitStore ==
    /\ now = 0
    /\ today = 0
    /\ memory \in {NewDocument, [NewDocument EXCEPT !.campbell_motto = OtherMotto]}
    /\ fs \in [file : InitialFiles, backup : {Missing, Garbage}]
    /\ last = NoCall
    /\ issued = [d \in Dates |-> 0]
    /\ NoProcesses

NextStore ==
    \/ Tick
    \/ Midnight
    \/ AddEntry("action", 5, "heron-local", <<>>)
    \/ \E fault \in Faults : Save(fault)
    \/ Load

SpecStore == InitStore /\ [][NextStore]_vars

----------------------------------------------------------------------------
(* Sequential runs of the program *)

\* len(f'Memory sync attempted with {remote_url}')
SyncContent(urlLen) == 27 + urlLen

\* local_memory of sync_with_remote after the load
Loaded(text) ==
    IF LoadMemory(text).status = "ok" THEN LoadMemory(text).memory ELSE NewDocument

\* whether sync_with_remote dies by an exception: the AttributeError of
\* load_memory, or the KeyError of memory['entries'] in add_entry
Raises(text) ==
    \/ LoadMemory(text).status = "raise"
    \/ "entries" \notin DOMAIN Loaded(text)

\* main(): one whole run of sync_with_remote(path, remote_url, source_id) and
\* the process's exit: "exit0", "exit1", or "raise" for a traceback
SyncWithRemote(urlLen, source, fault) ==
    /\ fault = "rename" => Exists(fs)
    /\ IF Raises(fs.file)
          THEN /\ last' = [NoCall EXCEPT !.op = "sync", !.ret = "raise"]
               /\ UNCHANGED <<memory, fs, issued>>
          ELSE LET m == AddEntryTo(Loaded(fs.file), "action", SyncContent(urlLen),
                                   source, <<>>)
                   saved == SaveMemory(fs, m, fault)
               IN  /\ Len(Loaded(fs.file).entries) < MaxEntries
                   /\ memory' = m
                   /\ fs' = saved.fs
                   /\ issued' = [issued EXCEPT
                                   ![today] = NextNum(Loaded(fs.file).entries, today)]
                   /\ last' = [NoCall EXCEPT
                                 !.op = "sync", !.fault = fault,
                                 !.ret = IF saved.ret THEN "exit0" ELSE "exit1"]
    /\ UNCHANGED <<now, today, pc, local, saw, handle, result>>

InitSync ==
    /\ now = 0
    /\ today = 0
    /\ memory = NewDocument
    /\ fs \in [file : InitialFiles, backup : {Missing, Garbage}]
    /\ last = NoCall
    /\ issued = [d \in Dates |-> 0]
    /\ NoProcesses

NextSync ==
    \/ Tick
    \/ Midnight
    \/ \E urlLen \in {20, ContentLimit}, fault \in Faults :
           SyncWithRemote(urlLen, "heron-local", fault)

SpecSync == InitSync /\ [][NextSync]_vars

----------------------------------------------------------------------------
(* Two runs of the program at once on one path, without locking.  Each step *)
(* below is one system call or one computation on the process's own data.   *)

Procs == {1, 2}

SourceId(p) == IF p = 1 THEN "heron-01" ELSE "heron-02"

\* local_memory = load_memory(local_path), or the new document
RLoad(p) ==
    /\ pc[p] = "load"
    /\ IF Raises(fs.file)
          THEN /\ pc' = [pc EXCEPT ![p] = "done"]
               /\ result' = [result EXCEPT ![p] = "raise"]
               /\ UNCHANGED local
          ELSE /\ pc' = [pc EXCEPT ![p] = "add"]
               /\ local' = [local EXCEPT ![p] = Loaded(fs.file)]
               /\ UNCHANGED result
    /\ UNCHANGED <<now, today, memory, fs, last, issued, saw, handle>>

\* local_memory = add_entry(local_memory, 'action', ...)
RAdd(p) ==
    /\ pc[p] = "add"
    /\ Len(local[p].entries) < MaxEntries
    /\ local' = [local EXCEPT
                   ![p] = AddEntryTo(@, "action", SyncContent(20), SourceId(p), <<>>)]
    /\ pc' = [pc EXCEPT ![p] = "exists"]
    /\ UNCHANGED <<now, today, memory, fs, last, issued, saw, handle, result>>

\* save_memory: if os.path.exists(file_path)
RExists(p) ==
    /\ pc[p] = "exists"
    /\ saw' = [saw EXCEPT ![p] = Exists(fs)]
    /\ pc' = [pc EXCEPT ![p] = IF Exists(fs) THEN "rename" ELSE "open"]
    /\ UNCHANGED <<now, today, memory, fs, last, issued, local, handle, result>>

\* save_memory: os.rename(file_path, backup_path); an open file goes with its
\* name to the backup, and the file that was the backup loses its name
RRename(p) ==
    /\ pc[p] = "rename"
    /\ fs' = Rename(fs).fs
    /\ IF Rename(fs).ok
          THEN /\ pc' = [pc EXCEPT ![p] = "open"]
               /\ handle' = [q \in Procs |->
                                IF handle[q] = "file" THEN "backup"
                                ELSE IF handle[q] = "backup" THEN "gone"
                                ELSE handle[q]]
               /\ UNCHANGED result
          ELSE /\ pc' = [pc EXCEPT ![p] = "done"]      \* except: return False
               /\ result' = [result EXCEPT ![p] = "exit1"]
               /\ UNCHANGED handle
    /\ UNCHANGED <<now, today, memory, last, issued, local, saw>>

\* save_memory: open(file_path, 'w')
ROpen(p) ==
    /\ pc[p] = "open"
    /\ fs' = OpenW(fs)
    /\ handle' = [handle EXCEPT ![p] = "file"]
    /\ pc' = [pc EXCEPT ![p] = "dump"]
    /\ UNCHANGED <<now, today, memory, last, issued, local, saw, result>>

\* what a file holds after process p writes its text from offset 0: the text,
\* or, over a longer text another process wrote meanwhile, a mix of the two
Written(before, m) ==
    IF before = Partial THEN {Dump(m)} ELSE {Dump(m), Garbage}

\* save_memory: json.dump(memory, f, indent=2), close, return True
RDump(p) ==
    /\ pc[p] = "dump"
    /\ fs' \in
          IF handle[p] = "file"
              THEN {[fs EXCEPT !.file = text] : text \in Written(fs.file, local[p])}
          ELSE IF handle[p] = "backup"
              THEN {[fs EXCEPT !.backup = text] : text \in Written(fs.backup, local[p])}
          ELSE {fs}      \* the file has no name any more
    /\ handle' = [handle EXCEPT ![p] = "none"]
    /\ pc' = [pc EXCEPT ![p] = "done"]
    /\ result' = [result EXCEPT ![p] = "exit0"]
    /\ UNCHANGED <<now, today, memory, last, issued, local, saw>>

\* the document of one entry the path holds before the two runs
OneEntryDocument ==
    [NewDocument EXCEPT
        !.entries = <<[id |-> EntryId(0, 1), type |-> "action", content |-> 47,
                       source |-> "heron-local", timestamp |-> 0]>>]

InitRace ==
    /\ now = 0
    /\ today = 0
    /\ memory = NewDocument
    /\ fs \in [file : {Missing, Dump(NewDocument), Dump(OneEntryDocument)},
               backup : {Missing, Dump(NewDocument)}]
    /\ last = NoCall
    /\ issued = [d \in Dates |-> 0]
    /\ pc = [p \in Procs |-> "load"]
    /\ local = [p \in Procs |-> NewDocument]
    /\ saw = [p \in Procs |-> FALSE]
    /\ handle = [p \in Procs |-> "none"]
    /\ result = [p \in Procs |-> "none"]

NextRace ==
    \/ Tick
    \/ \E p \in Procs :
          RLoad(p) \/ RAdd(p) \/ RExists(p) \/ RRename(p) \/ ROpen(p) \/ RDump(p)

SpecRace == InitRace /\ [][NextRace]_vars

----------------------------------------------------------------------------
(* Properties of the document operations, checked under Spec *)

\* the remote entries merge_memories is to add: those whose id local lacks
Absent(localEntries, remoteEntries) ==
    SelectSeq(remoteEntries, LAMBDA e : e.id \notin Ids(localEntries))

LocalEntriesOf(entries, date) ==
    {i \in 1..Len(entries) :
        entries[i].source = "heron-local" /\ StartsWith(entries[i].id, date)}

\* C1: starting from a document whose ids are pairwise distinct, an add_entry
\* or a merge_memories with a remote whose ids are pairwise distinct leaves a
\* document whose ids are pairwise distinct.
C1_IdsStayUnique ==
    [][(UniqueIds(memory.entries) /\ UniqueIds(last'.remote))
          => UniqueIds(memory'.entries)]_vars

\* C2: after any merge_memories or add_entry the entries are sorted ascending
\* by metadata.timestamp.
C2_SortedAfterMergeOrAppend ==
    last.op \in {"merge", "merge_self", "add_entry"} => Sorted(memory.entries)

\* C3: merge_memories(local, remote) keeps every local entry unchanged and the
\* multiset of the result's entries is local's entries plus the remote entries
\* whose id was absent from local.
C3_MergeAddsExactlyAbsent ==
    [][last'.op = "merge" =>
          /\ \A e \in Range(memory.entries) : e \in Range(memory'.entries)
          /\ SeqBag(memory'.entries) =
                 SeqBag(memory.entries)
                     (+) SeqBag(Absent(memory.entries, last'.remote))]_vars

\* a merge that skipped a remote entry because a local entry has its id, and
\* added another remote entry
C3_Witness ==
    /\ last.op = "merge"
    /\ \E e \in Range(last.remote) :
          /\ e \notin Range(memory.entries)
          /\ \E f \in Range(memory.entries) :
                f.id = e.id /\ f.source = "heron-local"
    /\ \E e \in Range(last.remote) : e \in Range(memory.entries)

\* C4: merge_memories(d, d) returns the same number of entries and the same
\* entries as d, and merging a remote a second time adds nothing.
C4_SelfMergeAddsNothing ==
    [][/\ last'.op = "merge_self" =>
             /\ Len(memory'.entries) = Len(memory.entries)
             /\ SeqBag(memory'.entries) = SeqBag(memory.entries)
       /\ last'.op = "merge" =>
             MergeEntries(memory'.entries, last'.remote) = memory'.entries]_vars

\* a document of several entries, out of timestamp order, merged with itself
C4_Witness ==
    /\ last.op = "merge_self"
    /\ Len(memory.entries) >= 2
    /\ \E i \in 1..Len(memory.entries) - 1 :
          memory.entries[i].timestamp < memory.entries[i + 1].timestamp

\* C5: the sequence number add_entry produces is strictly greater than the one
\* it produced last on the same UTC date (hence than every earlier one of that
\* date), whatever merges happened in between.
C5_SequenceNumbersIncrease ==
    [][last'.op = "add_entry" => issued'[today] > issued[today]]_vars

\* two appends of one date with a merge of an entry of that date in between
C5_Witness ==
    /\ last.op = "add_entry"
    /\ Cardinality(LocalEntriesOf(memory.entries, today)) = 2
    /\ issued[today] = 3

----------------------------------------------------------------------------
(* Properties of save_memory and load_memory, checked under SpecStore *)

\* C6: when a file exists at path, a successful save_memory leaves its
\* previous contents in the backup (replacing any earlier backup) and the new
\* document at path; when open or the write fails after the rename,
\* save_memory returns False, the backup holds the previous contents and path
\* does not get them back.
C6_BackupHoldsPrevious ==
    [][last'.op = "save" =>
          /\ last'.ret = "True" => fs'.file = Dump(memory)
          /\ (last'.ret = "True" /\ Exists(fs)) => fs'.backup = fs.file
          /\ (last'.ret = "True" /\ ~Exists(fs)) => fs'.backup = fs.backup
          /\ last'.fault \in {"open", "dump"} => last'.ret = "False"
          /\ (last'.fault \in {"open", "dump"} /\ Exists(fs)) =>
                /\ fs'.backup = fs.file
                /\ fs'.file \in {Missing, Partial}]_vars

\* a successful save over an existing document while an earlier backup exists
C6_Witness ==
    /\ last.op = "save"
    /\ last.ret = "True"
    /\ Len(EntriesOf(fs.file)) = 2
    /\ Len(EntriesOf(fs.backup)) = 1

----------------------------------------------------------------------------
(* Properties of sync_with_remote, checked under SpecSync *)

\* a local file that is missing, is no JSON, is JSON but no object, or is an
\* object whose marker is not the required one
Invalid(text) ==
    \/ text.kind \in {"missing", "garbage", "partial", "array"}
    \/ /\ text.kind = "object"
       /\ ~("campbell_motto" \in DOMAIN text.members
              /\ text.members.campbell_motto = Motto)

\* C8: whenever the local file is missing, malformed or has a mismatched
\* marker, load_memory returns None instead of raising, and sync_with_remote
\* goes on with a fresh document, appends the sync entry to it and exits 0 if
\* the save succeeds.
C8_InvalidFileNotFatal ==
    [][(last'.op = "sync" /\ Invalid(fs.file)) =>
          /\ LoadMemory(fs.file).status = "none"
          /\ last'.ret # "raise"
          /\ last'.fault = "none" =>
                /\ last'.ret = "exit0"
                /\ fs'.file.kind = "object"
                /\ fs'.file.members.campbell_motto = Motto
                /\ Len(fs'.file.members.entries) = 1]_vars

\* C10: a successful run of sync_with_remote on a valid local file writes the
\* file's entries, unchanged and in the same order, followed by exactly one
\* new entry of type 'action'.
C10_RunsAppendOnly ==
    [][(/\ last'.op = "sync"
        /\ last'.ret = "exit0"
        /\ LoadMemory(fs.file).status = "ok") =>
          /\ fs'.file.kind = "object"
          /\ Len(fs'.file.members.entries) = Len(fs.file.members.entries) + 1
          /\ SubSeq(fs'.file.members.entries, 1, Len(fs.file.members.entries))
                 = fs.file.members.entries
          /\ fs'.file.members.entries[Len(fs'.file.members.entries)].type
                 = "action"]_vars

\* the second successful run in a row on a file that held an entry with a
\* later timestamp: the backup is the file as the run found it
C10_Witness ==
    /\ last.op = "sync"
    /\ last.ret = "exit0"
    /\ Len(EntriesOf(fs.file)) = 3
    /\ EntriesOf(fs.file)[1].source = "remote"
    /\ EntriesOf(fs.backup) = SubSeq(EntriesOf(fs.file), 1, 2)

----------------------------------------------------------------------------
(* Properties of concurrent runs, checked under SpecRace *)

AllDone == \A p \in Procs : pc[p] = "done"

\* the entry process p appended is in the entries
HasEntryOf(entries, p) == \E e \in Range(entries) : e.source = SourceId(p)

\* the two runs overlapped: neither loaded what the other wrote
Overlapped ==
    \A p \in Procs, q \in Procs : p # q => ~HasEntryOf(local[p].entries, q)

\* both runs report success and the file holds the entry of one of them only
LostUpdate ==
    /\ AllDone
    /\ \A p \in Procs : result[p] = "exit0"
    /\ fs.file.kind = "object"
    /\ \E p \in Procs : ~HasEntryOf(EntriesOf(fs.file), p)

\* C9: two runs on one path can race during the backup rename.  A save fails
\* only by the race, that is, when the file the process saw was renamed away
\* by the other process; and when the two runs overlap and both succeed, the
\* file they leave holds the entry of at most one of them.
C9_RenameRace ==
    /\ \A p \in Procs :
          result[p] = "exit1" =>
             /\ saw[p]
             /\ \E q \in Procs \ {p} :
                   saw[q] /\ pc[q] \in {"open", "dump", "done"} /\ result[q] # "exit1"
    /\ (AllDone /\ Overlapped /\ \A p \in Procs : result[p] = "exit0") =>
          \E p \in Procs : ~HasEntryOf(EntriesOf(fs.file), p)

\* both runs succeeded, the file holds the entry of one of them only, and the
\* backup holds what the other run wrote, not what preceded the two runs
C9_Witness ==
    /\ LostUpdate
    /\ \E p \in Procs : fs.backup = Dump(local[p])

\* a run's save failed: the file it saw was renamed away before its rename
C9_SaveFailed == \E p \in Procs : result[p] = "exit1"

====
